---- MODULE Spec2Model ----
(***************************************************************************)
(* BrandStreet: the position ledger / settlement logic of src/app.py.      *)
(*                                                                         *)
(* The store holds three tables: profiles (points_balance per user),       *)
(* brands (bes_score per brand) and ledger (an ordered list of rows).      *)
(* Every browser session runs the Streamlit script top to bottom: it reads *)
(* the profiles (line 30), reads the brands (line 52), and then, on        *)
(* "Confirm Stake" or "Confirm Sell", issues two separate store calls.     *)
(* Each store call is one atomic step; the steps of different sessions     *)
(* interleave freely, and a store write may raise, which ends the run.     *)
(* Amounts are points; bes scores are kept in hundredths (75.50 = 7550).   *)
(*                                                                         *)
(* The sync job of src/brand_exchange_pytrends_api.py reads the sheet,     *)
(* fetches the trend data batch by batch (get_growth_metrics), composes    *)
(* the scores and upserts the brands table by google_keyword. Its metrics  *)
(* are kept in hundredths too, computed in integer arithmetic with the     *)
(* rounding to two decimals of round().                                    *)
(***************************************************************************)
EXTENDS Integers, Sequences, FiniteSets, TLC

\* ------------------------------------------------------------------ bounds
MaxOps == 2            \* Stake/Sell operations confirmed in one behaviour of Spec, SpecSync
MaxSeqOps == 3         \* Stake/Sell operations confirmed in one behaviour of SpecSeq
MaxRuns == 2           \* runs of the sync job in one behaviour of SpecUpsert

\* ------------------------------------------------------- program constants
MinStake == 100        \* st.number_input("Amount to Stake", min_value=100, step=100)
MinSell == 0           \* st.number_input("Amount to Sell", min_value=0, ..., step=100)
ChunkSize == 4         \* chunk_size = 4
MinSamples == 52       \* if len(norm_series) >= 52

\* the profiles and the brands the store holds, and the open browser sessions
Users == {"u1", "u2"}
Brands == {"b1", "b2"}
Sessions == {"s1", "s2"}

\* the inputs: amounts typed into the number inputs, the thesis picked
StakeAmounts == {MinStake, 2 * MinStake}
SellRequests == {MinSell, 100, 200, 300}
Theses == {"Hype"}

\* bes_score values the sync job may write, in hundredths: 50.00 and 75.50
BesScores == {5000, 7550}
InitBalances == {0, 100}

NoUser == [id |-> "none", points_balance |-> 0]
NoBrand == [id |-> "none", bes_score |-> 0]
NoStake == [ver |-> -1, amount |-> 0]

VARIABLES
    balance,         \* profiles.points_balance, by user id
    bes,             \* brands.bes_score, by brand id
    ledger,          \* the ledger table, rows in insertion order
    pc,              \* each session's position in its script run
    current_user,    \* the profile row the run read at line 30
    brand_data,      \* the brand row the run selected at line 83
    amount,          \* amount (line 95) or sell_amount (line 127)
    total_invested,  \* total_invested (line 122)
    outcome,         \* what the finished run reported
    balVer,          \* history: number of balance writes, by user
    readVer,         \* history: balVer of its user when the run read the profile
    lastStake,       \* history: readVer and amount of the user's last completed stake
    deducted,        \* history: points taken off the stored balance by stakes
    balance0,        \* history: points_balance of each user at the start
    jpc,             \* the sync job's position in its script
    sheet,           \* df: the sheet rows the job loaded (line 36)
    batch_i,         \* i, the index of the batch being fetched (line 60), from 1
    metrics_map,     \* metrics_map, then results (lines 52, 100)
    supabase_upserts,\* supabase_upserts (line 117)
    brands,          \* the brands table as the job writes it: a set of rows
    now,             \* datetime.now(): the number of the job run
    fetched,         \* history: what each fetch of the run returned
    sent             \* history: the rows of each upsert that was executed

job == <<jpc, sheet, batch_i, metrics_map, supabase_upserts, brands, now,
         fetched, sent>>

vars == <<balance, bes, ledger, pc, current_user, brand_data, amount,
          total_invested, outcome, balVer, readVer, lastStake, deducted,
          balance0, job>>

store == <<balance, bes, ledger>>
locals == <<current_user, brand_data, amount, total_invested, readVer>>
history == <<balVer, lastStake, deducted, balance0>>

\* -------------------------------------------------------- pure helpers
\* not the code: a stake that skips the funds check
SufficientFunds_NoCheck(points_balance, amt) == TRUE

\* not the code: a funds check that ignores the amount
SufficientFunds_Positive(points_balance, amt) == points_balance > 0

\* line 99: current_user['points_balance'] >= amount
SufficientFunds(points_balance, amt) == points_balance >= amt

\* not the code: a stake that credits the amount
StakeNewBal_Credit(points_balance, amt) == points_balance + amt

\* line 110: new_bal = current_user['points_balance'] - amount
StakeNewBal(points_balance, amt) == points_balance - amt

\* not the code: the +10% payout the comment at line 135 mentions
Refund_Bonus(sell_amount) == sell_amount + (sell_amount \div 10)

\* line 137: refund = sell_amount (principal returned, no profit or loss)
Refund(sell_amount) == sell_amount

\* line 138: new_bal = current_user['points_balance'] + refund
SellNewBal(points_balance, refund) == points_balance + refund

\* not the code: a holdings read without the user_id filter
ActiveHoldings_AnyUser(l, u, b) ==
    SelectSeq(l, LAMBDA h : h.brand_id = b /\ h.status = "ACTIVE")

\* line 121: the ledger rows with this user_id, this brand_id and status ACTIVE
ActiveHoldings(l, u, b) ==
    SelectSeq(l, LAMBDA h : h.user_id = u /\ h.brand_id = b /\ h.status = "ACTIVE")

\* line 122: total_invested = sum([h['amount_staked'] for h in holdings])
RECURSIVE TotalInvested(_)
TotalInvested(holdings) ==
    IF holdings = <<>> THEN 0
    ELSE Head(holdings).amount_staked + TotalInvested(Tail(holdings))

\* line 127: the number input takes no value above max_value=total_invested
WithinMax(sell_amount, total) == sell_amount <= total

\* lines 101-108: the row a stake inserts
StakeRow(user, brand, amt, th) ==
    [user_id |-> user.id, brand_id |-> brand.id, amount_staked |-> amt,
     entry_bes |-> brand.bes_score, thesis_tag |-> th, status |-> "ACTIVE"]

\* lines 143-150: the row a sell inserts
SellRow(user, brand, sell_amount) ==
    [user_id |-> user.id, brand_id |-> brand.id, amount_staked |-> -sell_amount,
     entry_bes |-> brand.bes_score, thesis_tag |-> "CASH_OUT", status |-> "CLOSED"]

\* not the code: a write that replaces the latest row (line 131: "mark latest rows as CLOSED")
InsertRow_CloseLatest(l, row) ==
    IF l = <<>> THEN <<row>> ELSE Append(SubSeq(l, 1, Len(l) - 1), row)

\* supabase.table('ledger').insert(row): the table gains the row
InsertRow(l, row) == Append(l, row)

\* ------------------------------------------------ the sync job: pure helpers
\* the sheet: one row per brand, its 'Google Keyword' and its 'Brand Name'
\* ('Tribe' and 'Sector' travel like the name)
SheetRow(kw, name) == [kw |-> kw, name |-> name]

\* five brands: two batches, of four keywords and of one
SheetFive ==
    <<SheetRow("k1", "n1"), SheetRow("k2", "n2"), SheetRow("k3", "n3"),
      SheetRow("k4", "n4"), SheetRow("k5", "n5")>>

\* the sheet of two brands as it stands at one run or another: as seeded, with
\* the first brand renamed, and with the keyword of the first typed twice
SheetsTwo ==
    { <<SheetRow("k1", "n1"), SheetRow("k2", "n2")>>,
      <<SheetRow("k1", "n1b"), SheetRow("k2", "n2")>>,
      <<SheetRow("k1", "n1"), SheetRow("k1", "n1b")>> }

\* what interest_over_time() returns for one keyword: whether the frame has
\* its column and, in hundredths, the means of the normalised series over its
\* last two rows, the two rows before them and its first two rows
Absent == [present |-> FALSE, curr |-> 0, prev |-> 0, yoy_val |-> 0]
Surge == [present |-> TRUE, curr |-> 20000, prev |-> 5000, yoy_val |-> 2500]
Fall == [present |-> TRUE, curr |-> 1000, prev |-> 4000, yoy_val |-> 3000]
Series == {Absent, Surge, Fall}

\* the number of rows of the frame; none: the frame is empty
Lens == {0, 1, MinSamples - 1, MinSamples}

\* round(x, 2) of x = n / d hundredths, d > 0: the nearest hundredth, a tie to
\* the even one
Round2(n, d) ==
    LET q == n \div d
        r == n % d
    IN  IF 2 * r < d THEN q
        ELSE IF 2 * r > d THEN q + 1
        ELSE IF q % 2 = 0 THEN q ELSE q + 1

\* line 88
ZeroMetrics == [Volume |-> 0, PoP |-> 0, YoY |-> 0]

\* lines 79-86
GrowthMetrics(s) ==
    [Volume |-> s.curr,
     PoP |-> IF s.prev > 0 THEN Round2((s.curr - s.prev) * 10000, s.prev) ELSE 0,
     YoY |-> IF s.yoy_val > 0 THEN Round2((s.curr - s.yoy_val) * 10000, s.yoy_val) ELSE 0]

\* not the code: the 0-100 cap the comment at line 135 mentions
ComposeBes_Capped(data) ==
    LET b == Round2(data.Volume * 4 + data.PoP * 3 + data.YoY + 50000, 10)
    IN  IF b > 10000 THEN 10000 ELSE IF b < 0 THEN 0 ELSE b

\* lines 136-137: raw_bes in thousandths, final_bes = round(raw_bes, 2)
ComposeBes(data) == Round2(data.Volume * 4 + data.PoP * 3 + data.YoY + 50000, 10)

\* line 56: the chunks of the keyword list, the i-th of them, from 1
NChunks(keywords) == (Len(keywords) + ChunkSize - 1) \div ChunkSize
Chunk(keywords, i) ==
    SubSeq(keywords, (i - 1) * ChunkSize + 1,
           IF i * ChunkSize < Len(keywords) THEN i * ChunkSize ELSE Len(keywords))
Range(seq) == {seq[j] : j \in 1..Len(seq)}

\* line 99
KeywordsList(df) == [j \in 1..Len(df) |-> df[j].kw]

\* lines 73-88: the records a frame of n rows with the columns cols adds
AddMetrics(map, batch, n, cols) ==
    LET hit == {kw \in Range(batch) : cols[kw].present}
    IN  [kw \in DOMAIN map \cup hit |->
            IF kw \in hit
            THEN IF n >= MinSamples THEN GrowthMetrics(cols[kw]) ELSE ZeroMetrics
            ELSE map[kw]]

\* not the code: a failed fetch that ends the job
AfterFailure_Abort(i, last) == "done"

\* lines 90-94: the handler falls through to the next batch, line 96 after the last
AfterFailure(i, last) == IF i < last THEN "fetch" ELSE "sync"

\* lines 141-151: the row the job sends for a sheet row
UpsertRow(row, data, stamp) ==
    [google_keyword |-> row.kw, name |-> row.name,
     volume |-> data.Volume, growth_pop |-> data.PoP, growth_yoy |-> data.YoY,
     bes_score |-> ComposeBes(data), last_updated |-> stamp]

\* lines 120-151: one row for every sheet row whose keyword has a record
RECURSIVE Payload(_, _, _)
Payload(df, results, stamp) ==
    IF df = <<>> THEN <<>>
    ELSE LET row == Head(df)
             rest == Payload(Tail(df), results, stamp)
         IN  IF row.kw \in DOMAIN results
             THEN <<UpsertRow(row, results[row.kw], stamp)>> \o rest
             ELSE rest

\* not the code: on_conflict="name"
Conflict_OnName(old, new) == old.name = new.name

\* line 163: on_conflict="google_keyword"
Conflict(old, new) == old.google_keyword = new.google_keyword

\* not the code: insert(rows)
UpsertRows_InsertAll(table, rows) == table \cup Range(rows)

\* line 163: upsert(rows): a row replaces the stored row it conflicts with
UpsertRows(table, rows) ==
    {old \in table : \A j \in 1..Len(rows) : ~Conflict(old, rows[j])} \cup Range(rows)

\* the statement of line 163 is refused when two of its rows conflict
Upsertable(rows) ==
    \A j, k \in 1..Len(rows) : j # k => ~Conflict(rows[j], rows[k])

\* the brands the store holds at the start, as an earlier run left them
SeedBrands ==
    { [google_keyword |-> "k1", name |-> "n1", volume |-> 0, growth_pop |-> 0,
       growth_yoy |-> 0, bes_score |-> 5000, last_updated |-> 0],
      [google_keyword |-> "k2", name |-> "n2", volume |-> 6375, growth_pop |-> 0,
       growth_yoy |-> 0, bes_score |-> 7550, last_updated |-> 0] }

NoMetrics == [kw \in {} |-> ZeroMetrics]

\* -------------------------------------------------------------- initial state
InitApp ==
    /\ balance \in [Users -> InitBalances]
    /\ bes = [b \in Brands |-> IF b = "b1" THEN 5000 ELSE 7550]
    /\ ledger = <<>>
    /\ pc = [s \in Sessions |-> "start"]
    /\ current_user = [s \in Sessions |-> NoUser]
    /\ brand_data = [s \in Sessions |-> NoBrand]
    /\ amount = [s \in Sessions |-> 0]
    /\ total_invested = [s \in Sessions |-> 0]
    /\ outcome = [s \in Sessions |-> "none"]
    /\ balVer = [u \in Users |-> 0]
    /\ readVer = [s \in Sessions |-> 0]
    /\ lastStake = [u \in Users |-> NoStake]
    /\ deducted = [u \in Users |-> [b \in Brands |-> 0]]
    /\ balance0 = balance

\* the sessions alone: the sync job is not running
Init ==
    /\ InitApp
    /\ jpc = "off"
    /\ sheet = <<>>
    /\ batch_i = 0
    /\ metrics_map = NoMetrics
    /\ supabase_upserts = <<>>
    /\ brands = SeedBrands
    /\ now = 0
    /\ fetched = <<>>
    /\ sent = <<>>

\* the sync job alone, started on one of the sheets: lines 31-49
InitJob(sheets) ==
    /\ InitApp
    /\ balance = [u \in Users |-> 100]
    /\ jpc = "fetch"
    /\ sheet \in sheets
    /\ batch_i = 1
    /\ metrics_map = NoMetrics
    /\ supabase_upserts = <<>>
    /\ brands = SeedBrands
    /\ now = 1
    /\ fetched = <<>>
    /\ sent = <<>>

\* ------------------------------------------------------------ the script run
\* A run is the sequence of its store calls; what the script computes between
\* two store calls belongs to the step of the next one. When a run ends its
\* locals are gone and only the reported outcome stays on the page.
RECURSIVE SumOver(_, _)
SumOver(f, S) ==
    IF S = {} THEN 0
    ELSE LET x == CHOOSE y \in S : TRUE IN f[x] + SumOver(f, S \ {x})

\* the store writes made so far and those the runs in flight still have to make
Inserts == Len(ledger) + Cardinality({s \in Sessions : pc[s] = "sell_insert"})
Updates == SumOver(balVer, Users) + Cardinality({s \in Sessions : pc[s] = "stake_update"})
Budget(cap) == Inserts < cap /\ Updates < cap

\* the run of session s is over: it reported what
EndRun(s, what) ==
    /\ pc' = [pc EXCEPT ![s] = "end"]
    /\ outcome' = [outcome EXCEPT ![s] = what]
    /\ current_user' = [current_user EXCEPT ![s] = NoUser]
    /\ brand_data' = [brand_data EXCEPT ![s] = NoBrand]
    /\ amount' = [amount EXCEPT ![s] = 0]
    /\ total_invested' = [total_invested EXCEPT ![s] = 0]
    /\ readVer' = [readVer EXCEPT ![s] = 0]
    /\ UNCHANGED job

\* lines 30-35: the run reads the profiles and takes the selected one
ReadProfiles(s, u) ==
    /\ pc[s] = "start"
    /\ current_user' = [current_user EXCEPT ![s] = [id |-> u, points_balance |-> balance[u]]]
    /\ readVer' = [readVer EXCEPT ![s] = balVer[u]]
    /\ pc' = [pc EXCEPT ![s] = "market"]
    /\ UNCHANGED <<store, brand_data, amount, total_invested, outcome, history, job>>

\* lines 52-83: the run reads the brands and takes the selected one
ReadBrands(s, b) ==
    /\ pc[s] = "market"
    /\ brand_data' = [brand_data EXCEPT ![s] = [id |-> b, bes_score |-> bes[b]]]
    /\ pc' = [pc EXCEPT ![s] = "desk"]
    /\ UNCHANGED <<store, current_user, amount, total_invested, readVer, outcome, history, job>>

\* lines 98-99, 115-116: "Confirm Stake" without the funds: no store call
StakeRejected(s, amt) ==
    /\ pc[s] = "desk"
    /\ ~SufficientFunds(current_user[s].points_balance, amt)
    /\ EndRun(s, "InsufficientFunds")
    /\ UNCHANGED <<store, history>>

\* lines 98-108: "Confirm Stake" with the funds: the ledger insert
StakeInsert(s, amt, th, cap) ==
    /\ pc[s] = "desk"
    /\ SufficientFunds(current_user[s].points_balance, amt)
    /\ Budget(cap)
    /\ amount' = [amount EXCEPT ![s] = amt]
    /\ ledger' = InsertRow(ledger, StakeRow(current_user[s], brand_data[s], amt, th))
    /\ pc' = [pc EXCEPT ![s] = "stake_update"]
    /\ UNCHANGED <<balance, bes, current_user, brand_data, total_invested, readVer,
                   outcome, history, job>>

\* line 108: .execute() raises; the run ends before line 110
StakeInsertFail(s, amt, cap) ==
    /\ pc[s] = "desk"
    /\ SufficientFunds(current_user[s].points_balance, amt)
    /\ Budget(cap)
    /\ EndRun(s, "StakeInsertFailed")
    /\ UNCHANGED <<store, history>>

\* lines 110-112: the balance write of a stake
StakeUpdate(s) ==
    LET u == current_user[s].id
        b == brand_data[s].id
        new_bal == StakeNewBal(current_user[s].points_balance, amount[s])
    IN  /\ pc[s] = "stake_update"
        /\ balance' = [balance EXCEPT ![u] = new_bal]
        /\ balVer' = [balVer EXCEPT ![u] = @ + 1]
        /\ lastStake' = [lastStake EXCEPT ![u] = [ver |-> readVer[s], amount |-> amount[s]]]
        /\ deducted' = [deducted EXCEPT ![u][b] = @ + (balance[u] - new_bal)]
        /\ EndRun(s, "Staked")
        /\ UNCHANGED <<bes, ledger, balance0>>

\* line 111: .execute() raises, or the run stops after line 108
StakeUpdateFail(s) ==
    /\ pc[s] = "stake_update"
    /\ EndRun(s, "StakeUpdateFailed")
    /\ UNCHANGED <<store, history>>

\* lines 121-122: the sell branch reads the user's holdings of the brand
ReadHoldings(s) ==
    /\ pc[s] = "desk"
    /\ total_invested' = [total_invested EXCEPT ![s] =
           TotalInvested(ActiveHoldings(ledger, current_user[s].id, brand_data[s].id))]
    /\ pc' = [pc EXCEPT ![s] = "sell_desk"]
    /\ UNCHANGED <<store, current_user, brand_data, amount, readVer, outcome, history, job>>

\* lines 126, 155-156: nothing staked, no sell form: no store call
NoHoldings(s) ==
    /\ pc[s] = "sell_desk"
    /\ ~(total_invested[s] > 0)
    /\ EndRun(s, "NoHoldings")
    /\ UNCHANGED <<store, history>>

\* lines 126-127: the number input refuses the amount: no store call
SellRejected(s, req) ==
    /\ pc[s] = "sell_desk"
    /\ total_invested[s] > 0
    /\ ~WithinMax(req, total_invested[s])
    /\ EndRun(s, "ExceedsHoldings")
    /\ UNCHANGED <<store, history>>

\* lines 126-139: "Confirm Sell" with an amount the number input lets
\* through: the balance write
SellUpdate(s, req, cap) ==
    LET u == current_user[s].id
        b == brand_data[s].id
        refund == Refund(req)
        new_bal == SellNewBal(current_user[s].points_balance, refund)
    IN  /\ pc[s] = "sell_desk"
        /\ total_invested[s] > 0
        /\ WithinMax(req, total_invested[s])
        /\ Budget(cap)
        /\ amount' = [amount EXCEPT ![s] = req]
        /\ balance' = [balance EXCEPT ![u] = new_bal]
        /\ balVer' = [balVer EXCEPT ![u] = @ + 1]
        /\ pc' = [pc EXCEPT ![s] = "sell_insert"]
        /\ UNCHANGED <<bes, ledger, current_user, brand_data, total_invested, readVer,
                       outcome, lastStake, deducted, balance0, job>>

\* line 139: .execute() raises; the run ends before line 143
SellUpdateFail(s, req, cap) ==
    /\ pc[s] = "sell_desk"
    /\ total_invested[s] > 0
    /\ WithinMax(req, total_invested[s])
    /\ Budget(cap)
    /\ EndRun(s, "SellUpdateFailed")
    /\ UNCHANGED <<store, history>>

\* lines 143-152: the ledger insert of a sell
SellInsert(s) ==
    /\ pc[s] = "sell_insert"
    /\ ledger' = InsertRow(ledger, SellRow(current_user[s], brand_data[s], amount[s]))
    /\ EndRun(s, "Sold")
    /\ UNCHANGED <<balance, bes, history>>

\* line 150: .execute() raises, or the run stops after line 139
SellInsertFail(s) ==
    /\ pc[s] = "sell_insert"
    /\ EndRun(s, "SellInsertFailed")
    /\ UNCHANGED <<store, history>>

\* lines 113-114, 153-154: st.rerun(), or the next interaction: a new run
Rerun(s) ==
    /\ pc[s] = "end"
    /\ pc' = [pc EXCEPT ![s] = "start"]
    /\ outcome' = [outcome EXCEPT ![s] = "none"]
    /\ UNCHANGED <<store, locals, history, job>>

\* brand_exchange_pytrends_api.py line 163: the sync job's upsert rewrites
\* the bes_score of the brands in one store call
SyncUpsert(scores) ==
    /\ scores # bes
    /\ bes' = scores
    /\ UNCHANGED <<balance, ledger, pc, locals, outcome, history, job>>

\* the steps of the sessions S, logged in as a user of U, trading a brand of B,
\* with at most cap confirmed operations
Run(S, U, B, cap) ==
    \/ \E s \in S, u \in U : ReadProfiles(s, u)
    \/ \E s \in S, b \in B : ReadBrands(s, b)
    \/ \E s \in S, amt \in StakeAmounts : StakeRejected(s, amt)
    \/ \E s \in S, amt \in StakeAmounts, th \in Theses : StakeInsert(s, amt, th, cap)
    \/ \E s \in S, amt \in StakeAmounts : StakeInsertFail(s, amt, cap)
    \/ \E s \in S : StakeUpdate(s)
    \/ \E s \in S : StakeUpdateFail(s)
    \/ \E s \in S : ReadHoldings(s)
    \/ \E s \in S : NoHoldings(s)
    \/ \E s \in S, req \in SellRequests : SellRejected(s, req)
    \/ \E s \in S, req \in SellRequests : SellUpdate(s, req, cap)
    \/ \E s \in S, req \in SellRequests : SellUpdateFail(s, req, cap)
    \/ \E s \in S : SellInsert(s)
    \/ \E s \in S : SellInsertFail(s)
    \/ \E s \in S : Rerun(s)

\* two sessions, any interleaving of their store calls, one brand traded
Next == Run(Sessions, Users, {"b1"}, MaxOps)
Spec == Init /\ [][Next]_vars

\* one session: the operations run one after another, on any brand
NextSeq == Run({"s1"}, Users, Brands, MaxSeqOps)
SpecSeq == Init /\ [][NextSeq]_vars

\* one session of one user, with the sync job rewriting the scores meanwhile
NextSync ==
    \/ Run({"s1"}, {"u1"}, {"b1"}, MaxOps)
    \/ \E scores \in [Brands -> BesScores] : SyncUpsert(scores)
SpecSync == Init /\ [][NextSync]_vars

\* ------------------------------------------------------------- the sync job
\* The job is one script: get_growth_metrics fetches batch after batch, then
\* the sync step builds the rows and sends them in one upsert. A step is one
\* call of an outside service with what the script computes after it.
NoColumns(batch) == [kw \in Range(batch) |-> Absent]

\* the job is over: the process and its locals are gone
EndJob ==
    /\ jpc' = "done"
    /\ sheet' = <<>>
    /\ batch_i' = 0
    /\ metrics_map' = NoMetrics
    /\ supabase_upserts' = <<>>
    /\ fetched' = <<>>

\* lines 60-88, 94: the fetch of batch i returns a frame of n rows; an empty
\* frame is skipped (line 68), any other adds the records of its columns
FetchBatch(n) ==
    LET keywords == KeywordsList(sheet)
        batch == Chunk(keywords, batch_i)
    IN  /\ jpc = "fetch"
        /\ \E cols \in [Range(batch) -> Series] :
              /\ n = 0 => cols = NoColumns(batch)
              /\ metrics_map' = IF n = 0 THEN metrics_map
                                ELSE AddMetrics(metrics_map, batch, n, cols)
              /\ fetched' = Append(fetched, [batch |-> batch_i, ok |-> TRUE,
                                             n |-> n, cols |-> cols])
        /\ jpc' = IF batch_i < NChunks(keywords) THEN "fetch" ELSE "sync"
        /\ batch_i' = batch_i + 1
        /\ UNCHANGED <<sheet, supabase_upserts, brands, now, sent>>
        /\ UNCHANGED <<store, pc, locals, outcome, history>>

\* lines 63-66, 90-94: the fetch of batch i raises; the handler prints, sleeps
\* 60 seconds and the loop goes on
FetchFail ==
    LET keywords == KeywordsList(sheet)
        batch == Chunk(keywords, batch_i)
    IN  /\ jpc = "fetch"
        /\ fetched' = Append(fetched, [batch |-> batch_i, ok |-> FALSE,
                                       n |-> 0, cols |-> NoColumns(batch)])
        /\ jpc' = AfterFailure(batch_i, NChunks(keywords))
        /\ batch_i' = batch_i + 1
        /\ UNCHANGED <<sheet, metrics_map, supabase_upserts, brands, now, sent>>
        /\ UNCHANGED <<store, pc, locals, outcome, history>>

\* lines 106-114: the sheet lacks one of the four columns: exit()
ColumnsMissing ==
    /\ jpc = "sync"
    /\ EndJob
    /\ UNCHANGED <<brands, now, sent>>
    /\ UNCHANGED <<store, pc, locals, outcome, history>>

\* lines 106-151: the sync loop builds the rows to send
PrepareSync ==
    /\ jpc = "sync"
    /\ supabase_upserts' = Payload(sheet, metrics_map, now)
    /\ jpc' = "write"
    /\ UNCHANGED <<sheet, batch_i, metrics_map, brands, now, fetched, sent>>
    /\ UNCHANGED <<store, pc, locals, outcome, history>>

\* lines 154-155: worksheet.batch_update raises: the script ends there
SheetUpdateFail ==
    /\ jpc = "write"
    /\ supabase_upserts # <<>>
    /\ EndJob
    /\ UNCHANGED <<brands, now, sent>>
    /\ UNCHANGED <<store, pc, locals, outcome, history>>

\* lines 159-164: the upsert, when there is a row to send
Upsert ==
    /\ jpc = "write"
    /\ IF supabase_upserts = <<>>
       THEN UNCHANGED <<brands, sent>>
       ELSE /\ Upsertable(supabase_upserts)
            /\ brands' = UpsertRows(brands, supabase_upserts)
            /\ sent' = Append(sent, supabase_upserts)
    /\ EndJob
    /\ UNCHANGED now
    /\ UNCHANGED <<store, pc, locals, outcome, history>>

\* lines 163-166: the upsert raises: the error is printed, nothing is stored
UpsertFail ==
    /\ jpc = "write"
    /\ supabase_upserts # <<>>
    /\ EndJob
    /\ UNCHANGED <<brands, now, sent>>
    /\ UNCHANGED <<store, pc, locals, outcome, history>>

\* the job is started again, on the sheet as it stands then
RunAgain(df, cap) ==
    /\ jpc = "done"
    /\ now < cap
    /\ jpc' = "fetch"
    /\ sheet' = df
    /\ batch_i' = 1
    /\ now' = now + 1
    /\ UNCHANGED <<metrics_map, supabase_upserts, brands, fetched, sent>>
    /\ UNCHANGED <<store, pc, locals, outcome, history>>

\* one run of the job
JobRun ==
    \/ \E n \in Lens : FetchBatch(n)
    \/ FetchFail
    \/ ColumnsMissing
    \/ PrepareSync
    \/ SheetUpdateFail
    \/ Upsert
    \/ UpsertFail

\* one run over five brands, two batches
NextFetch == JobRun
SpecFetch == InitJob({SheetFive}) /\ [][NextFetch]_vars

\* the same run, which does not stop while it has a step to take
SpecFetchLive == SpecFetch /\ WF_vars(NextFetch)

\* run after run over two brands, the sheet edited in between
NextUpsert ==
    \/ JobRun
    \/ \E df \in SheetsTwo : RunAgain(df, MaxRuns)
SpecUpsert == InitJob(SheetsTwo) /\ [][NextUpsert]_vars

\* -------------------------------------------------------------- properties
\* the rows of the ledger, and what the ledger holds for a user and a brand
Rows == 1..Len(ledger)

RECURSIVE SumRows(_, _)
SumRows(l, I) ==
    IF I = {} THEN 0
    ELSE LET i == CHOOSE j \in I : TRUE IN l[i].amount_staked + SumRows(l, I \ {i})

HeldActive(u, b) ==
    SumRows(ledger, {i \in Rows : /\ ledger[i].user_id = u
                                  /\ ledger[i].brand_id = b
                                  /\ ledger[i].status = "ACTIVE"})

CashedOut(u, b) ==
    0 - SumRows(ledger, {i \in Rows : /\ ledger[i].user_id = u
                                      /\ ledger[i].brand_id = b
                                      /\ ledger[i].status = "CLOSED"})

UserOf(s) == current_user[s].id
BrandOf(s) == brand_data[s].id
Shown(s) == current_user[s].points_balance
Fresh(s) == readVer[s] = balVer[UserOf(s)]
OthersKept(u) == \A v \in Users \ {u} : balance'[v] = balance[v]
LastRow == ledger'[Len(ledger')]
Appended == Len(ledger') = Len(ledger) + 1 /\ SubSeq(ledger', 1, Len(ledger)) = ledger

\* C1: of two stakes of one user that ran concurrently on the same stored
\* balance, with amounts that together exceed it, only one completes: a stake
\* never completes when the user's last completed stake read the same balance
\* and the two amounts exceed it.
C1_OneOfTwoStakes ==
    [][\A t \in Sessions :
          (pc[t] = "stake_update" /\ outcome'[t] = "Staked")
          => ~(/\ lastStake[UserOf(t)].ver = readVer[t]
               /\ lastStake[UserOf(t)].amount + amount[t] > Shown(t))]_vars

\* C2: every profile's stored points_balance is >= 0 in every reachable state.
C2_BalanceNonNegative == \A u \in Users : balance[u] >= 0

C2_Witness ==
    \E u \in Users : lastStake[u].ver >= 0 /\ balance[u] = 0 /\ CashedOut(u, "b1") > 0

\* C3: the ledger insert and the balance write of one operation are stored
\* together: in no state is one of them stored and the other not.
LedgerStored(s) ==
    pc[s] = "stake_update" \/ outcome[s] \in {"StakeUpdateFailed", "Staked", "Sold"}
BalanceStored(s) ==
    pc[s] = "sell_insert" \/ outcome[s] \in {"SellInsertFailed", "Staked", "Sold"}
C3_PairAtomic == \A s \in Sessions : LedgerStored(s) <=> BalanceStored(s)

\* C4: what the completed sells of a user on a brand have credited (each
\* CLOSED row records a credit the balance has received) never exceeds what
\* the user has staked on that brand: once the holdings are sold in full, no
\* further sell goes through.
C4_CreditedWithinStaked ==
    \A u \in Users, b \in Brands : CashedOut(u, b) <= HeldActive(u, b)

\* C5: the ACTIVE amount a user holds on a brand never exceeds what the
\* stakes on that brand have taken off the user's stored balance.
C5_ActiveWithinDeducted ==
    \A u \in Users, b \in Brands : HeldActive(u, b) <= deducted[u][b]

\* C6: a stake of more than the user's points_balance is rejected with
\* InsufficientFunds, is never carried out, and the rejection changes no
\* balance and no ledger row.
C6_RejectedStakeNoEffect ==
    /\ [](\A s \in Sessions, amt \in StakeAmounts :
            (pc[s] = "desk" /\ amt > Shown(s))
            => /\ ENABLED StakeRejected(s, amt)
               /\ \A th \in Theses : ~ENABLED StakeInsert(s, amt, th, MaxOps))
    /\ [][\A s \in Sessions :
            /\ (pc[s] = "desk" /\ pc'[s] = "stake_update") => amount'[s] <= Shown(s)
            /\ (pc[s] = "desk" /\ outcome'[s] = "InsufficientFunds")
               => (balance' = balance /\ ledger' = ledger)]_vars

C6_Witness ==
    \E s \in Sessions : outcome[s] = "InsufficientFunds" /\ ledger # <<>>

\* C7: a stake that completes adds exactly one row, ACTIVE with
\* amount_staked = +amount for its user and brand, and leaves the user's
\* balance at the balance the operation read minus amount (the stored balance
\* minus amount when nothing wrote it since); no other balance changes.
C7_StakeEffect ==
    [][\A s \in Sessions :
          /\ (pc[s] = "desk" /\ pc'[s] = "stake_update")
             => /\ Appended
                /\ LastRow.user_id = UserOf(s)
                /\ LastRow.brand_id = BrandOf(s)
                /\ LastRow.amount_staked = amount'[s]
                /\ LastRow.status = "ACTIVE"
                /\ amount'[s] > 0
                /\ balance' = balance
          /\ (pc[s] = "stake_update" /\ outcome'[s] = "Staked")
             => /\ balance'[UserOf(s)] = Shown(s) - amount[s]
                /\ Fresh(s) => balance'[UserOf(s)] = balance[UserOf(s)] - amount[s]
                /\ OthersKept(UserOf(s))
                /\ ledger' = ledger]_vars

C7_Witness ==
    \E s \in Sessions, u \in Users :
        /\ outcome[s] = "Staked"
        /\ lastStake[u].amount = MinStake /\ balance[u] = 0
        /\ \E v \in Users \ {u} : balance[v] > 0
        /\ Len(ledger) = 1

\* C8: a sell of more than the user's ACTIVE holdings of the brand is
\* rejected and never carried out, the rejection changes no balance and no
\* ledger row, and a sell that was let through is within the holdings at
\* every moment up to its ledger insert, whatever the other sessions do.
C8_ExceedingSellRejected ==
    /\ [](\A s \in Sessions :
            /\ \A req \in SellRequests :
                 (pc[s] = "sell_desk" /\ total_invested[s] > 0
                    /\ req > HeldActive(UserOf(s), BrandOf(s)))
                 => /\ ENABLED SellRejected(s, req)
                    /\ ~ENABLED SellUpdate(s, req, MaxOps)
            /\ pc[s] = "sell_insert" => amount[s] <= HeldActive(UserOf(s), BrandOf(s)))
    /\ [][\A s \in Sessions :
            (pc[s] = "sell_desk" /\ outcome'[s] \in {"ExceedsHoldings", "NoHoldings"})
            => (balance' = balance /\ ledger' = ledger)]_vars

C8_Witness ==
    \E s, t \in Sessions :
        /\ outcome[s] = "ExceedsHoldings"
        /\ pc[t] = "stake_update" /\ HeldActive(UserOf(t), BrandOf(t)) > amount[t]

\* C9: a sell that completes leaves the user's balance at the balance the
\* operation read plus exactly amount (the stored balance plus amount when
\* nothing wrote it since), whatever the scores are, and adds exactly one row
\* with amount_staked = -amount, thesis_tag CASH_OUT and status CLOSED.
C9_SellEffect ==
    [][\A s \in Sessions :
          /\ (pc[s] = "sell_desk" /\ pc'[s] = "sell_insert")
             => /\ balance'[UserOf(s)] = Shown(s) + amount'[s]
                /\ Fresh(s) => balance'[UserOf(s)] = balance[UserOf(s)] + amount'[s]
                /\ OthersKept(UserOf(s))
                /\ ledger' = ledger
          /\ (pc[s] = "sell_insert" /\ outcome'[s] = "Sold")
             => /\ Appended
                /\ LastRow.user_id = UserOf(s)
                /\ LastRow.brand_id = BrandOf(s)
                /\ LastRow.amount_staked = -amount[s]
                /\ LastRow.thesis_tag = "CASH_OUT"
                /\ LastRow.status = "CLOSED"
                /\ balance' = balance]_vars

C9_Witness ==
    \E s \in Sessions, i, j \in Rows :
        /\ outcome[s] = "Sold"
        /\ i < j /\ j = Len(ledger)
        /\ ledger[i].status = "ACTIVE" /\ ledger[j].status = "CLOSED"
        /\ ledger[j].amount_staked < 0
        /\ ledger[j].entry_bes # ledger[i].entry_bes
        /\ bes[ledger[j].brand_id] # ledger[j].entry_bes

\* the columns of a brands row other than last_updated
Unstamped(rows) ==
    {[google_keyword |-> r.google_keyword, name |-> r.name, volume |-> r.volume,
      growth_pop |-> r.growth_pop, growth_yoy |-> r.growth_yoy,
      bes_score |-> r.bes_score] : r \in rows}

\* C10: the ledger is append-only: a step either leaves it alone or adds one
\* row at its end, and no existing row is removed or changed in its
\* amount_staked, entry_bes, user_id or brand_id.
C10_LedgerAppendOnly ==
    [][\/ ledger' = ledger
       \/ /\ Len(ledger') = Len(ledger) + 1
          /\ \A i \in Rows :
                /\ ledger'[i].amount_staked = ledger[i].amount_staked
                /\ ledger'[i].entry_bes = ledger[i].entry_bes
                /\ ledger'[i].user_id = ledger[i].user_id
                /\ ledger'[i].brand_id = ledger[i].brand_id]_vars

C10_Witness ==
    /\ Len(ledger) = 2
    /\ ledger[1].status = "ACTIVE" /\ ledger[2].status = "CLOSED"
    /\ ledger[2].amount_staked < 0

\* C11: the upsert is idempotent: an upsert of the same rows as the upsert
\* executed before it leaves the brands table with the same rows and the same
\* values in every column but last_updated, which takes the time of the run.
C11_UpsertIdempotent ==
    [][(/\ sent # <<>>
        /\ sent' = Append(sent, supabase_upserts)
        /\ Unstamped(Range(supabase_upserts)) = Unstamped(Range(sent[Len(sent)]))
        /\ Len(supabase_upserts) = Len(sent[Len(sent)]))
       => /\ Unstamped(brands') = Unstamped(brands)
          /\ Cardinality(brands') = Cardinality(brands)
          /\ \A r \in Range(supabase_upserts) : r \in brands']_vars

C11_Witness ==
    /\ Len(sent) = 2
    /\ Unstamped(Range(sent[1])) = Unstamped(Range(sent[2]))
    /\ Len(sent[1]) = 2 /\ Len(sent[2]) = 2
    /\ \E r \in brands : r.last_updated = 2 /\ r.bes_score > 10000

\* C12: the brands table holds at most one row per google_keyword, after any
\* number of runs; an upsert of a row whose key is stored, with a new name or
\* not, replaces the stored row and adds none, and only a new key adds a row.
StoredKeys == {r.google_keyword : r \in brands}
C12_OneRowPerKey ==
    /\ [](\A r1, r2 \in brands : r1.google_keyword = r2.google_keyword => r1 = r2)
    /\ [][sent' = Append(sent, supabase_upserts)
          => /\ \A p \in Range(supabase_upserts) :
                  {r \in brands' : r.google_keyword = p.google_keyword} = {p}
             /\ Cardinality(brands') = Cardinality(brands)
                  + Cardinality({p.google_keyword : p \in Range(supabase_upserts)}
                                \ StoredKeys)]_vars

C12_Witness ==
    /\ Cardinality(brands) = 2
    /\ \E r \in brands : r.google_keyword = "k1" /\ r.name = "n1b" /\ r.last_updated > 0
    /\ \E r \in brands : r.google_keyword = "k2"

\* C13: a batch whose fetch fails does not end the run: a step of the fetch
\* loop leads to the next batch or to the sync step, at the sync step every
\* batch has been fetched once, in order, and every keyword a fetch returned
\* rows for has its record; and the loop always reaches the sync step.
BatchesOf(df) == 1..NChunks(KeywordsList(df))
C13_FailureDoesNotAbort ==
    /\ [](jpc \in {"sync", "write"}
          => /\ Len(fetched) = NChunks(KeywordsList(sheet))
             /\ \A i \in BatchesOf(sheet) :
                  /\ fetched[i].batch = i
                  /\ (fetched[i].ok /\ fetched[i].n > 0)
                     => \A kw \in Range(Chunk(KeywordsList(sheet), i)) :
                           fetched[i].cols[kw].present => kw \in DOMAIN metrics_map)
    /\ [][jpc = "fetch" => jpc' \in {"fetch", "sync"}]_vars
    /\ (jpc = "fetch" ~> jpc = "sync")

C13_Witness ==
    /\ jpc = "sync"
    /\ ~fetched[1].ok
    /\ fetched[2].ok /\ fetched[2].n >= MinSamples
    /\ "k5" \in DOMAIN metrics_map

\* C14: when the fetch of a batch fails, the same batch is fetched again: at
\* the sync step every failed fetch is followed by another fetch of its batch.
C14_FailedFetchRetried ==
    jpc \in {"sync", "write"}
    => \A i \in 1..Len(fetched) :
          ~fetched[i].ok
          => \E j \in (i + 1)..Len(fetched) : fetched[j].batch = fetched[i].batch

\* C15: every keyword of a batch whose fetch failed for good ends the run
\* with the zero record in the result map and has its row in the upsert.
FailedForGood(i) ==
    /\ \E j \in 1..Len(fetched) : fetched[j].batch = i
    /\ \A j \in 1..Len(fetched) : fetched[j].batch = i => ~fetched[j].ok
C15_FailedBatchZeroed ==
    \A i \in BatchesOf(sheet) : \A kw \in Range(Chunk(KeywordsList(sheet), i)) :
        /\ (jpc \in {"sync", "write"} /\ FailedForGood(i))
           => (kw \in DOMAIN metrics_map /\ metrics_map[kw] = ZeroMetrics)
        /\ (jpc = "write" /\ FailedForGood(i))
           => \E p \in Range(supabase_upserts) : p.google_keyword = kw

\* C16: every keyword whose fetched series has fewer than 52 samples, none
\* included, ends with exactly the zero record in the result map.
C16_ShortSeriesZeroed ==
    jpc \in {"sync", "write"}
    => \A i \in 1..Len(fetched) :
          (fetched[i].ok /\ fetched[i].n < MinSamples)
          => \A kw \in Range(Chunk(KeywordsList(sheet), fetched[i].batch)) :
                (fetched[i].n = 0 \/ fetched[i].cols[kw].present)
                => (kw \in DOMAIN metrics_map /\ metrics_map[kw] = ZeroMetrics)

\* what the formula gives for a stored row, in thousandths, and a score that
\* is that value rounded to the nearest hundredth
ScoreOfRow(r) == r.volume * 4 + r.growth_pop * 3 + r.growth_yoy + 50000
NearestHundredth(score, thousandths) ==
    10 * score - thousandths <= 5 /\ thousandths - 10 * score <= 5
SpecExample == [Volume |-> 5000, PoP |-> 1000, YoY |-> 500]

\* C17: the bes_score the job sends and stores for a record is
\* Volume*0.4 + PoP*0.3 + YoY*0.1 + 50 rounded to the nearest hundredth, with
\* no cap: a value above 100 or below 0 stays as it is, and Volume 50,
\* PoP 10, YoY 5 gives 73.50.
C17_ScoreFormulaUnclamped ==
    /\ \A r \in Range(supabase_upserts) : NearestHundredth(r.bes_score, ScoreOfRow(r))
    /\ \A r \in brands : NearestHundredth(r.bes_score, ScoreOfRow(r))
    /\ ComposeBes([Volume |-> 20000, PoP |-> 0, YoY |-> 0]) = 13000
    /\ ComposeBes([Volume |-> 0, PoP |-> -20000, YoY |-> 0]) = -1000
    /\ ComposeBes(SpecExample) = 7350

\* C17 as stated: the same, with Volume 50, PoP 10, YoY 5 giving 75.50.
C17_AsStated ==
    /\ \A r \in Range(supabase_upserts) : NearestHundredth(r.bes_score, ScoreOfRow(r))
    /\ \A r \in brands : NearestHundredth(r.bes_score, ScoreOfRow(r))
    /\ ComposeBes([Volume |-> 20000, PoP |-> 0, YoY |-> 0]) = 13000
    /\ ComposeBes([Volume |-> 0, PoP |-> -20000, YoY |-> 0]) = -1000
    /\ ComposeBes(SpecExample) = 7550

C17_Witness ==
    /\ \E r \in brands : r.last_updated > 0 /\ r.bes_score = 29000
    /\ \E r \in brands : r.last_updated > 0 /\ r.bes_score = 2483 /\ r.growth_yoy = -6667
    /\ \E r \in brands : r.last_updated > 0 /\ r.bes_score = 5000

\* C18: the entry_bes of the row a stake writes is the bes_score stored for
\* its brand at the moment of the write, whatever the sync job wrote since the
\* session read the brands.
C18_EntryBesAtWrite ==
    [][\A s \in Sessions :
          (pc[s] = "desk" /\ pc'[s] = "stake_update")
          => LastRow.entry_bes = bes[LastRow.brand_id]]_vars

\* C19: a sell of amount 0 is rejected: no session goes on to its writes with
\* amount 0 and no CLOSED row of amount 0 is ever stored.
C19_ZeroSellRejected ==
    /\ \A s \in Sessions : pc[s] = "sell_insert" => amount[s] > 0
    /\ \A i \in Rows : ledger[i].status = "CLOSED" => ledger[i].amount_staked # 0

\* C20: conservation of points: whenever no operation is between its two
\* writes, each user's points_balance plus the amount_staked of all the
\* user's ledger rows, ACTIVE and CLOSED, is the user's initial balance.
LedgerTotal(u) == SumRows(ledger, {i \in Rows : ledger[i].user_id = u})
C20_PointsConserved ==
    (\A s \in Sessions : pc[s] \notin {"stake_update", "sell_insert"})
    => \A u \in Users : balance[u] + LedgerTotal(u) = balance0[u]

====
